---- MODULE Spec2Model ----
(***************************************************************************)
(* A model of the MoE routing logger (MoELogger, moe_logger.py): the sink  *)
(* that writes a JSONL trace of top-k expert routing decisions, one meta   *)
(* header and one route record per token, for a single configured layer.   *)
(*                                                                         *)
(* The analysis script (plot_expert_hist.py) reads the trace back, builds   *)
(* the expert usage histogram and computes the distribution metrics.       *)
(*                                                                         *)
(* Spec         : calls arrive one at a time; each handler is one action.  *)
(* ConcSpec     : several threads run log_routing on the same sink, one    *)
(*                statement at a time (the class takes no lock).           *)
(* GetSpec      : several threads call MoELogger.get_instance, one         *)
(*                statement at a time.                                     *)
(* AnalysisSpec : main() of the analysis script runs on a trace file.      *)
(***************************************************************************)
EXTENDS Integers, Sequences, FiniteSets, TLC

VARIABLES
    env,              \* VLLM_LOG_MOE in os.environ, and whether open() can write there
    enabled,          \* self.enabled
    log_file,         \* self.log_file
    file_handle,      \* self.file_handle: None or the open file object
    logged_layer,     \* self.logged_layer
    request_counter,  \* self.request_counter
    disk,             \* lines of the output file that were flushed
    buffer,           \* lines written to the file object and not yet flushed
    opens,            \* how many times open(path, "w") created/truncated the file
    last,             \* the most recent call: its arguments and how it returned
    pc,               \* each thread's position inside log_routing or get_instance
    loc,              \* ConcSpec: each thread's arguments and local variables
    cls_instance,     \* MoELogger._instance: None or the object it names
    cls_initialized,  \* MoELogger._initialized
    constructed,      \* how many MoELogger objects __init__ has set up
    frame,            \* GetSpec: each thread's new object and returned object
    main_pc,          \* main(): its position
    main_meta,        \* main(): meta
    main_routes,      \* main(): routes
    main_usage,       \* main(): expert_usage
    main_metrics,     \* main(): metrics
    main_exc          \* the exception that ended main(), if one did

vars == <<env, enabled, log_file, file_handle, logged_layer, request_counter,
          disk, buffer, opens, last, pc, loc,
          cls_instance, cls_initialized, constructed, frame,
          main_pc, main_meta, main_routes, main_usage, main_metrics, main_exc>>

sinkVars == <<enabled, log_file, file_handle, logged_layer, request_counter>>

classVars == <<cls_instance, cls_initialized, constructed, frame>>

mainVars == <<main_pc, main_meta, main_routes, main_usage, main_metrics, main_exc>>

(***************************************************************************)
(* Bounds of the exploration.                                              *)
(***************************************************************************)
MaxRows == 2
MaxLines == 2
MaxCounter == 2
BatchK == 2
NumExperts == 3
MaxRoutes == 2
MaxExpertId == 3

(***************************************************************************)
(* Python values.  None and Optional[...] are tagged so that a None can be *)
(* told from a value; a float is an integer count of 1e-8.                 *)
(***************************************************************************)
NoneVal == [none |-> TRUE]
Some(v) == [none |-> FALSE, v |-> v]
PyStr(text) == [py |-> "str", v |-> text]
PyObject == [py |-> "object", v |-> "<object>"]
HandleNone == "None"
HandleOpen == "open"
NoExc == "none"

(* A torch tensor argument, by what .detach().cpu().tolist() gives: a list *)
(* of rows; an argument that is no tensor has no .detach().                *)
Tensor(rows) == [isTensor |-> TRUE, rows |-> rows]
NotATensor == [isTensor |-> FALSE, rows |-> <<>>]

IdAt(i, j) == (i + j) % NumExperts
WeightAt(i, j) ==
    IF i % 2 = 1
    THEN (IF j % 2 = 1 THEN 69999999 ELSE 30000001)
    ELSE (IF j % 2 = 1 THEN 12345649 ELSE 87654351)

IdsOfShape(n, k) == Tensor([i \in 1..n |-> [j \in 1..k |-> IdAt(i, j)]])
WeightsOfShape(n, k) == Tensor([i \in 1..n |-> [j \in 1..k |-> WeightAt(i, j)]])

(* What the file object does during a call: works, or write() raises, or   *)
(* flush() (also the flush inside close()) raises.                         *)
IoOutcomes == {"ok", "write_fails", "flush_fails"}

(* The batches a caller passes, with what the file object does meanwhile.  *)
(* Well-shaped: ids and weights both [n, BatchK], under every I/O outcome. *)
(* Ill-shaped, the file working: weights one row short, weights one column *)
(* narrow, and either argument something that is no tensor.                *)
Batch(ids, weights, io) == [topk_ids |-> ids, topk_weights |-> weights, io |-> io]

WellShaped ==
    {Batch(IdsOfShape(n, BatchK), WeightsOfShape(n, BatchK), io) :
        n \in 0..MaxRows, io \in IoOutcomes}
IllShaped ==
    {Batch(IdsOfShape(n, BatchK), WeightsOfShape(n - 1, BatchK), "ok") : n \in 1..MaxRows}
    \cup {Batch(IdsOfShape(n, BatchK), WeightsOfShape(n, BatchK - 1), "ok") : n \in 1..MaxRows}
    \cup {Batch(NotATensor, WeightsOfShape(1, BatchK), "ok"),
          Batch(IdsOfShape(1, BatchK), NotATensor, "ok")}
BatchArgs == WellShaped \cup IllShaped
LayerArgs == {0, 1}
ReqIdArgs == {NoneVal, Some("q")}

(* The headers a caller writes: the batches' width with and without a      *)
(* seed, a width that is not the batches', and a model_id that json.dumps  *)
(* cannot serialize.                                                       *)
SeedArgs == {NoneVal, Some(1234)}
ModelId == PyStr("Qwen/Qwen1.5-MoE-A2.7B-Chat")
HeaderArgs ==
    {[model_id |-> ModelId, top_k |-> BatchK, seed |-> seed] : seed \in SeedArgs}
    \cup {[model_id |-> ModelId, top_k |-> BatchK - 1, seed |-> NoneVal],
          [model_id |-> PyObject, top_k |-> BatchK, seed |-> NoneVal]}

(***************************************************************************)
(* json.dumps: Python values to JSON values.                               *)
(***************************************************************************)
JStr(s) == [j |-> "string", v |-> s]
JInt(n) == [j |-> "int", v |-> n]
JFloat(micro) == [j |-> "float", micro |-> micro]
JNull == [j |-> "null"]
JArr(xs) == [j |-> "array", v |-> xs]

(* json.dumps raises TypeError on a value that is no str, number, list,    *)
(* dict, bool or None.                                                     *)
Serializable(x) == x.py = "str"

DumpsOptInt(x) == IF x.none THEN JNull ELSE JInt(x.v)
DumpsIntList(xs) == JArr([i \in 1..Len(xs) |-> JInt(xs[i])])
DumpsFloatList(xs) == JArr([i \in 1..Len(xs) |-> JFloat(xs[i])])

(* round(w, 6) of a float given in units of 1e-8; the result is in units   *)
(* of 1e-6 (round-half-even, as Python rounds).                            *)
Round6(w) ==
    LET q == w \div 100
        r == w % 100
    IN  IF r > 50 \/ (r = 50 /\ q % 2 = 1) THEN q + 1 ELSE q

(***************************************************************************)
(* __init__                                                                *)
(***************************************************************************)
Unset == "<unset>"
EnvPaths == {Unset, "", "moe_routes.jsonl"}
EnvLayers == {Unset, "1", "abc"}

EnvGet(e, name, default) == IF e[name] = Unset THEN default ELSE e[name]

(* int(layer_str): the strings of EnvLayers and the default.               *)
IsIntLiteral(s) == s \in {"0", "1"}
IntOf(s) == IF s = "1" THEN 1 ELSE 0

ParseLayer(layer_str) == IF IsIntLiteral(layer_str) THEN IntOf(layer_str) ELSE 0

(* Mutant: a default file name stands in for an unset VLLM_LOG_MOE.        *)
PathAlwaysConfigured(log_path) == TRUE

PathConfigured(log_path) == log_path # ""

(* Mutant: self.enabled = True precedes open(), and the except clause does *)
(* not reset it.                                                           *)
OpenFailedStillEnabled(log_path) ==
    [enabled |-> TRUE, log_file |-> Some(log_path),
     file_handle |-> HandleNone, logged_layer |-> 0,
     request_counter |-> 0, opens |-> 0, exc |-> "OSError"]

(* open() raised: line 34 has run, lines 36-52 have not, line 55 has.      *)
OpenFailed(log_path) ==
    [enabled |-> FALSE, log_file |-> Some(log_path),
     file_handle |-> HandleNone, logged_layer |-> 0,
     request_counter |-> 0, opens |-> 0, exc |-> "OSError"]

NewSink(e, layer_env) ==
    LET log_path == EnvGet(e, "VLLM_LOG_MOE", "")
        layer_str == IF layer_env = Unset THEN "0" ELSE layer_env
    IN  IF PathConfigured(log_path)
        THEN IF e.writable
             THEN [enabled |-> TRUE, log_file |-> Some(log_path),
                   file_handle |-> HandleOpen,
                   logged_layer |-> ParseLayer(layer_str),
                   request_counter |-> 0, opens |-> 1, exc |-> NoExc]
             ELSE OpenFailed(log_path)
        ELSE [enabled |-> FALSE, log_file |-> NoneVal,
              file_handle |-> HandleNone, logged_layer |-> 0,
              request_counter |-> 0, opens |-> 0, exc |-> NoExc]

(* except Exception: logger.error(...): __init__ returns normally.         *)
InitExcept(exc) == IF exc # NoExc THEN "caught" ELSE "ok"

InitReturned(layer_env, exc) ==
    [op |-> "__init__", result |-> InitExcept(exc), exc |-> exc,
     layer_env |-> layer_env]

Threads == {1, 2}
IdleLoc == [layer_idx |-> 0, topk_ids |-> NotATensor, topk_weights |-> NotATensor,
            req_id |-> NoneVal, token_idx |-> 0, tmp |-> 0]
IdleFrame == [new |-> NoneVal, ret |-> NoneVal]

(* main() before it starts.                                                *)
MainIdle ==
    /\ main_pc = "start"
    /\ main_meta = NoneVal
    /\ main_routes = <<>>
    /\ main_usage = <<>>
    /\ main_metrics = [empty |-> TRUE]   \* nothing computed yet
    /\ main_exc = NoExc

Init ==
    /\ env \in [VLLM_LOG_MOE : EnvPaths, writable : BOOLEAN]
    /\ \E layer_env \in EnvLayers :
          LET s == NewSink(env, layer_env)
          IN  /\ enabled = s.enabled
              /\ log_file = s.log_file
              /\ file_handle = s.file_handle
              /\ logged_layer = s.logged_layer
              /\ request_counter = s.request_counter
              /\ opens = s.opens
              /\ last = InitReturned(layer_env, s.exc)
    /\ disk = <<>>
    /\ buffer = <<>>
    /\ pc = [t \in Threads |-> "idle"]
    /\ loc = [t \in Threads |-> IdleLoc]
    /\ cls_instance = Some(1)
    /\ cls_initialized = TRUE
    /\ constructed = 1
    /\ frame = [t \in Threads |-> IdleFrame]
    /\ MainIdle

(***************************************************************************)
(* The file object: write() appends to the buffer, flush() moves the       *)
(* buffer to the disk, close() flushes and releases.  Lines are far        *)
(* smaller than the buffer, so a write alone puts nothing on the disk.     *)
(***************************************************************************)
FileWrite(buf, line, io) ==
    IF io = "write_fails"
    THEN [buffer |-> buf, exc |-> "OSError"]
    ELSE [buffer |-> Append(buf, line), exc |-> NoExc]

FileFlush(d, buf, io) ==
    IF io = "flush_fails"
    THEN [disk |-> d, buffer |-> buf, exc |-> "OSError"]
    ELSE [disk |-> d \o buf, buffer |-> <<>>, exc |-> NoExc]

FileClose(d, buf, io) ==
    IF io = "flush_fails"
    THEN [disk |-> d, buffer |-> <<>>, exc |-> "OSError"]
    ELSE [disk |-> d \o buf, buffer |-> <<>>, exc |-> NoExc]

(* The guard both capture operations start with.                           *)
Disabled == ~enabled \/ file_handle = HandleNone

(* How a call returned: result is "noop" (an early return), "ok", "caught" *)
(* (an exception was logged and swallowed) or "raised" (it reached the     *)
(* caller); exc is the exception's class.                                  *)
Returned(op, result, exc) == [op |-> op, result |-> result, exc |-> exc]

(***************************************************************************)
(* write_meta_header                                                       *)
(***************************************************************************)
VersionOf(pkg) == IF pkg = "torch" THEN "2.1.2" ELSE "0.6.3"

MetaRecord(model_id, top_k, num_experts, device, seed) ==
    [type |-> JStr("meta"),
     model_id |-> JStr(model_id.v),
     vllm_version |-> JStr(VersionOf("vllm")),
     torch_version |-> JStr(VersionOf("torch")),
     device |-> JStr(device),
     seed |-> DumpsOptInt(seed),
     layers_logged |-> DumpsIntList(<<logged_layer>>),
     top_k |-> JInt(top_k),
     num_experts |-> JInt(num_experts)]

(* Mutant: the header line is written twice.                               *)
WriteMetaTwice(model_id, meta, io) ==
    IF ~Serializable(model_id)
    THEN [disk |-> disk, buffer |-> buffer, exc |-> "TypeError"]
    ELSE LET w == FileWrite(buffer, meta, io)
             w2 == FileWrite(w.buffer, meta, io)
         IN  IF w2.exc # NoExc
             THEN [disk |-> disk, buffer |-> w2.buffer, exc |-> w2.exc]
             ELSE FileFlush(disk, w2.buffer, io)

(* The try block: json.dumps, one write, one flush.                        *)
WriteMetaTry(model_id, meta, io) ==
    IF ~Serializable(model_id)
    THEN [disk |-> disk, buffer |-> buffer, exc |-> "TypeError"]
    ELSE LET w == FileWrite(buffer, meta, io)
         IN  IF w.exc # NoExc
             THEN [disk |-> disk, buffer |-> w.buffer, exc |-> w.exc]
             ELSE FileFlush(disk, w.buffer, io)

(* except Exception: logger.error(...): the call returns normally.         *)
WriteMetaExcept(exc) == IF exc # NoExc THEN "caught" ELSE "ok"

(* The first conjunct bounds the exploration: the file holds at most       *)
(* MaxLines lines.                                                         *)
WriteMetaHeader(model_id, top_k, num_experts, device, seed, io) ==
    /\ Len(disk) + Len(buffer) < MaxLines
    /\ IF Disabled
       THEN /\ UNCHANGED <<disk, buffer>>
            /\ last' = Returned("write_meta_header", "noop", NoExc)
       ELSE LET t == WriteMetaTry(
                        model_id,
                        MetaRecord(model_id, top_k, num_experts, device, seed), io)
            IN  /\ disk' = t.disk
                /\ buffer' = t.buffer
                /\ last' = Returned("write_meta_header", WriteMetaExcept(t.exc), t.exc)
    /\ UNCHANGED <<classVars, mainVars, env, sinkVars, opens, pc, loc>>

(***************************************************************************)
(* log_routing                                                             *)
(***************************************************************************)
(* Mutant: the layer filter is missing.                                    *)
LayerAlwaysMatches(layer_idx) == TRUE

LayerMatches(layer_idx) == layer_idx = logged_layer

(* req_id = f"r{self.request_counter}"                                     *)
MintedId(counter) == "r" \o ToString(counter)

(* Mutant: token_idx counts from 1.                                        *)
RouteRecordFromOne(req_id, row, layer_idx, ids_cpu, weights_cpu) ==
    [type |-> JStr("route"),
     req_id |-> JStr(req_id),
     token_idx |-> JInt(row),
     layer |-> JInt(layer_idx),
     topk_ids |-> DumpsIntList(ids_cpu[row]),
     topk_weights |-> DumpsFloatList(
         [j \in 1..Len(weights_cpu[row]) |-> Round6(weights_cpu[row][j])])]

(* The record of one token; token_idx counts from 0, rows from 1.          *)
RouteRecord(req_id, row, layer_idx, ids_cpu, weights_cpu) ==
    [type |-> JStr("route"),
     req_id |-> JStr(req_id),
     token_idx |-> JInt(row - 1),
     layer |-> JInt(layer_idx),
     topk_ids |-> DumpsIntList(ids_cpu[row]),
     topk_weights |-> DumpsFloatList(
         [j \in 1..Len(weights_cpu[row]) |-> Round6(weights_cpu[row][j])])]

(* for token_idx in range(num_tokens): build the record, write it.         *)
(* topk_weights_cpu[token_idx] raises IndexError past the last row.        *)
RECURSIVE WriteLoop(_, _, _, _, _, _, _)
WriteLoop(row, buf, req_id, layer_idx, ids_cpu, weights_cpu, io) ==
    IF row > Len(ids_cpu)
    THEN [buffer |-> buf, exc |-> NoExc]
    ELSE IF row > Len(weights_cpu)
         THEN [buffer |-> buf, exc |-> "IndexError"]
         ELSE LET w == FileWrite(
                          buf,
                          RouteRecord(req_id, row, layer_idx, ids_cpu, weights_cpu),
                          io)
              IN  IF w.exc # NoExc
                  THEN w
                  ELSE WriteLoop(row + 1, w.buffer, req_id, layer_idx,
                                 ids_cpu, weights_cpu, io)

(* Mutant: the counter is bumped for caller-supplied ids too.              *)
AssignReqIdAlwaysCounts(req_id, counter) ==
    IF req_id.none
    THEN [req_id |-> MintedId(counter), request_counter |-> counter + 1]
    ELSE [req_id |-> req_id.v, request_counter |-> counter + 1]

(* if req_id is None: mint one and count it.                               *)
AssignReqId(req_id, counter) ==
    IF req_id.none
    THEN [req_id |-> MintedId(counter), request_counter |-> counter + 1]
    ELSE [req_id |-> req_id.v, request_counter |-> counter]

(* The try block, lines 139-164.                                           *)
LogRoutingTry(layer_idx, topk_ids, topk_weights, req_id, io) ==
    IF ~topk_ids.isTensor \/ ~topk_weights.isTensor
    THEN [request_counter |-> request_counter, disk |-> disk,
          buffer |-> buffer, exc |-> "AttributeError"]
    ELSE LET a == AssignReqId(req_id, request_counter)
             lp == WriteLoop(1, buffer, a.req_id, layer_idx, topk_ids.rows,
                             topk_weights.rows, io)
         IN  IF lp.exc # NoExc
             THEN [request_counter |-> a.request_counter, disk |-> disk,
                   buffer |-> lp.buffer, exc |-> lp.exc]
             ELSE LET f == FileFlush(disk, lp.buffer, io)
                  IN  [request_counter |-> a.request_counter, disk |-> f.disk,
                       buffer |-> f.buffer, exc |-> f.exc]

(* Mutant: no except clause around the body.                               *)
LogRoutingNoExcept(exc) == IF exc # NoExc THEN "raised" ELSE "ok"

(* except Exception: logger.error(...): the call returns normally.         *)
LogRoutingExcept(exc) == IF exc # NoExc THEN "caught" ELSE "ok"

(* What a log_routing call leaves in last: its layer and request id too.   *)
RoutingReturned(layer_idx, req_id, result, exc) ==
    [op |-> "log_routing", result |-> result, exc |-> exc,
     layer_idx |-> layer_idx, req_id |-> req_id]

(* The first two conjuncts bound the exploration: the file holds at most   *)
(* MaxLines lines and at most MaxCounter ids are minted.                   *)
LogRouting(layer_idx, topk_ids, topk_weights, req_id, io) ==
    /\ Len(disk) + Len(buffer) + Len(topk_ids.rows) <= MaxLines
    /\ req_id.none => request_counter < MaxCounter
    /\ IF Disabled \/ ~LayerMatches(layer_idx)
       THEN /\ UNCHANGED <<request_counter, disk, buffer>>
            /\ last' = RoutingReturned(layer_idx, req_id, "noop", NoExc)
       ELSE LET t == LogRoutingTry(layer_idx, topk_ids, topk_weights, req_id, io)
            IN  /\ request_counter' = t.request_counter
                /\ disk' = t.disk
                /\ buffer' = t.buffer
                /\ last' = RoutingReturned(layer_idx, req_id,
                                           LogRoutingExcept(t.exc), t.exc)
    /\ UNCHANGED <<classVars, mainVars, env, enabled, log_file, file_handle,
                   logged_layer, opens, pc, loc>>

(***************************************************************************)
(* close (also what __del__ runs)                                          *)
(***************************************************************************)
CloseExcept(exc) == IF exc # NoExc THEN "caught" ELSE "ok"

(* Mutant: the two assignments follow close() inside the try.              *)
CloseNoFinally(exc) ==
    IF exc # NoExc
    THEN [file_handle |-> HandleOpen, enabled |-> TRUE]
    ELSE [file_handle |-> HandleNone, enabled |-> FALSE]

(* finally: self.file_handle = None; self.enabled = False                  *)
CloseFinally(exc) == [file_handle |-> HandleNone, enabled |-> FALSE]

Close(io) ==
    /\ IF file_handle # HandleNone
       THEN LET c == FileClose(disk, buffer, io)
                f == CloseFinally(c.exc)
            IN  /\ disk' = c.disk
                /\ buffer' = c.buffer
                /\ file_handle' = f.file_handle
                /\ enabled' = f.enabled
                /\ last' = Returned("close", CloseExcept(c.exc), c.exc)
       ELSE /\ UNCHANGED <<disk, buffer, file_handle, enabled>>
            /\ last' = Returned("close", "noop", NoExc)
    /\ UNCHANGED <<classVars, mainVars, env, log_file, logged_layer,
                   request_counter, opens, pc, loc>>

(***************************************************************************)
(* Spec: the sink called by one caller, one call after the other.          *)
(***************************************************************************)
Next ==
    \/ \E h \in HeaderArgs, io \in IoOutcomes :
          WriteMetaHeader(h.model_id, h.top_k, NumExperts, "cuda", h.seed, io)
    \/ \E layer_idx \in LayerArgs, b \in BatchArgs, req_id \in ReqIdArgs :
          LogRouting(layer_idx, b.topk_ids, b.topk_weights, req_id, b.io)
    \/ \E io \in {"ok", "flush_fails"} : Close(io)

Spec == Init /\ [][Next]_vars

(***************************************************************************)
(* ConcSpec: every thread makes one log_routing call on the shared sink.   *)
(* The method takes no lock, so the threads interleave between its         *)
(* statements; self.request_counter += 1 is a load and a store.  The file  *)
(* object works throughout.                                                *)
(***************************************************************************)
CallerId(t) == "q" \o ToString(t)

ConcBatchArgs == {b \in BatchArgs : b.io = "ok"}

LrCall(t) ==
    /\ pc[t] = "idle"
    /\ \E layer_idx \in LayerArgs, b \in ConcBatchArgs,
          req_id \in {NoneVal, Some(CallerId(t))} :
          loc' = [loc EXCEPT ![t] = [layer_idx |-> layer_idx,
                                     topk_ids |-> b.topk_ids,
                                     topk_weights |-> b.topk_weights,
                                     req_id |-> req_id,
                                     token_idx |-> 0,
                                     tmp |-> 0]]
    /\ pc' = [pc EXCEPT ![t] = "guard"]
    /\ UNCHANGED <<classVars, mainVars, env, sinkVars, disk, buffer, opens, last>>

(* Lines 131-136: the two early returns.                                   *)
LrGuard(t) ==
    /\ pc[t] = "guard"
    /\ pc' = [pc EXCEPT ![t] =
                IF Disabled \/ ~LayerMatches(loc[t].layer_idx)
                THEN "done" ELSE "convert"]
    /\ UNCHANGED <<classVars, mainVars, env, sinkVars, disk, buffer, opens, last, loc>>

(* Lines 140-144: the two tolist() calls, then the test of req_id.         *)
LrConvert(t) ==
    /\ pc[t] = "convert"
    /\ pc' = [pc EXCEPT ![t] =
                IF ~loc[t].topk_ids.isTensor \/ ~loc[t].topk_weights.isTensor
                THEN "done"
                ELSE IF loc[t].req_id.none THEN "mint" ELSE "loop"]
    /\ UNCHANGED <<classVars, mainVars, env, sinkVars, disk, buffer, opens, last, loc>>

(* Line 145: req_id = f"r{self.request_counter}".                          *)
LrMint(t) ==
    /\ pc[t] = "mint"
    /\ loc' = [loc EXCEPT ![t].req_id = Some(MintedId(request_counter))]
    /\ pc' = [pc EXCEPT ![t] = "incr_load"]
    /\ UNCHANGED <<classVars, mainVars, env, sinkVars, disk, buffer, opens, last>>

(* Line 146, first half: load self.request_counter.                        *)
LrIncrLoad(t) ==
    /\ pc[t] = "incr_load"
    /\ loc' = [loc EXCEPT ![t].tmp = request_counter]
    /\ pc' = [pc EXCEPT ![t] = "incr_store"]
    /\ UNCHANGED <<classVars, mainVars, env, sinkVars, disk, buffer, opens, last>>

(* Line 146, second half: store the sum.                                   *)
LrIncrStore(t) ==
    /\ pc[t] = "incr_store"
    /\ request_counter' = loc[t].tmp + 1
    /\ pc' = [pc EXCEPT ![t] = "loop"]
    /\ UNCHANGED <<classVars, mainVars, env, enabled, log_file, file_handle, logged_layer,
                   disk, buffer, opens, last, loc>>

(* Lines 150-161: one turn of the loop writes one record; the weights row  *)
(* that is not there raises IndexError, which line 166 catches.            *)
LrWrite(t) ==
    /\ pc[t] = "loop"
    /\ loc[t].token_idx < Len(loc[t].topk_ids.rows)
    /\ IF loc[t].token_idx >= Len(loc[t].topk_weights.rows)
       THEN /\ pc' = [pc EXCEPT ![t] = "done"]
            /\ UNCHANGED <<buffer, loc>>
       ELSE /\ buffer' = FileWrite(
                            buffer,
                            RouteRecord(loc[t].req_id.v, loc[t].token_idx + 1,
                                        loc[t].layer_idx, loc[t].topk_ids.rows,
                                        loc[t].topk_weights.rows),
                            "ok").buffer
            /\ loc' = [loc EXCEPT ![t].token_idx = @ + 1]
            /\ UNCHANGED pc
    /\ UNCHANGED <<classVars, mainVars, env, sinkVars, disk, opens, last>>

(* Line 164: the flush after the loop.                                     *)
LrFlush(t) ==
    /\ pc[t] = "loop"
    /\ loc[t].token_idx >= Len(loc[t].topk_ids.rows)
    /\ LET f == FileFlush(disk, buffer, "ok")
       IN  /\ disk' = f.disk
           /\ buffer' = f.buffer
    /\ pc' = [pc EXCEPT ![t] = "done"]
    /\ UNCHANGED <<classVars, mainVars, env, sinkVars, opens, last, loc>>

ConcNext ==
    \E t \in Threads :
        \/ LrCall(t)
        \/ LrGuard(t)
        \/ LrConvert(t)
        \/ LrMint(t)
        \/ LrIncrLoad(t)
        \/ LrIncrStore(t)
        \/ LrWrite(t)
        \/ LrFlush(t)

ConcSpec == Init /\ [][ConcNext]_vars

(***************************************************************************)
(* GetSpec: the threads of one process call MoELogger.get_instance.  The   *)
(* class attributes start as the class body sets them (lines 20-21); the   *)
(* method takes no lock, so the threads interleave between its statements. *)
(* The sink variables hold the fields of the object built last.            *)
(***************************************************************************)
ClassInit ==
    /\ env \in [VLLM_LOG_MOE : EnvPaths, writable : BOOLEAN,
                 VLLM_LOG_MOE_LAYER : EnvLayers]
    /\ cls_instance = NoneVal
    /\ cls_initialized = FALSE
    /\ constructed = 0
    /\ frame = [t \in Threads |-> IdleFrame]
    /\ enabled = FALSE
    /\ log_file = NoneVal
    /\ file_handle = HandleNone
    /\ logged_layer = 0
    /\ request_counter = 0
    /\ opens = 0
    /\ disk = <<>>
    /\ buffer = <<>>
    /\ last = Returned("none", "ok", NoExc)
    /\ pc = [t \in Threads |-> "idle"]
    /\ loc = [t \in Threads |-> IdleLoc]
    /\ MainIdle

(* A thread calls get_instance; a thread that has returned may call again. *)
GiCall(t) ==
    /\ pc[t] \in {"idle", "done"}
    /\ pc' = [pc EXCEPT ![t] = "gi_test"]
    /\ frame' = [frame EXCEPT ![t] = IdleFrame]
    /\ UNCHANGED <<mainVars, env, sinkVars, disk, buffer, opens, last, loc,
                   cls_instance, cls_initialized, constructed>>

(* Line 60: if cls._instance is None or not cls._initialized.              *)
GiTest(t) ==
    /\ pc[t] = "gi_test"
    /\ pc' = [pc EXCEPT ![t] =
                IF cls_instance = NoneVal \/ ~cls_initialized
                THEN "gi_construct" ELSE "gi_return"]
    /\ UNCHANGED <<mainVars, classVars, env, sinkVars, disk, buffer, opens,
                   last, loc>>

(* Line 61, right-hand side: MoELogger() runs __init__; open(path, "w")    *)
(* creates or truncates the file.                                          *)
GiConstruct(t) ==
    /\ pc[t] = "gi_construct"
    /\ LET s == NewSink(env, env.VLLM_LOG_MOE_LAYER)
       IN  /\ enabled' = s.enabled
           /\ log_file' = s.log_file
           /\ file_handle' = s.file_handle
           /\ logged_layer' = s.logged_layer
           /\ request_counter' = s.request_counter
           /\ opens' = opens + s.opens
           /\ disk' = IF s.opens > 0 THEN <<>> ELSE disk
           /\ buffer' = IF s.opens > 0 THEN <<>> ELSE buffer
           /\ last' = InitReturned(env.VLLM_LOG_MOE_LAYER, s.exc)
    /\ constructed' = constructed + 1
    /\ frame' = [frame EXCEPT ![t].new = Some(constructed + 1)]
    /\ pc' = [pc EXCEPT ![t] = "gi_assign"]
    /\ UNCHANGED <<mainVars, env, loc, cls_instance, cls_initialized>>

(* Line 61, the store: cls._instance = <the new object>.                   *)
GiAssign(t) ==
    /\ pc[t] = "gi_assign"
    /\ cls_instance' = frame[t].new
    /\ pc' = [pc EXCEPT ![t] = "gi_set"]
    /\ UNCHANGED <<mainVars, env, sinkVars, disk, buffer, opens, last, loc,
                   cls_initialized, constructed, frame>>

(* Line 62: cls._initialized = True.                                       *)
GiSetInitialized(t) ==
    /\ pc[t] = "gi_set"
    /\ cls_initialized' = TRUE
    /\ pc' = [pc EXCEPT ![t] = "gi_return"]
    /\ UNCHANGED <<mainVars, env, sinkVars, disk, buffer, opens, last, loc,
                   cls_instance, constructed, frame>>

(* Line 63: return cls._instance.                                          *)
GiReturn(t) ==
    /\ pc[t] = "gi_return"
    /\ frame' = [frame EXCEPT ![t].ret = cls_instance]
    /\ pc' = [pc EXCEPT ![t] = "done"]
    /\ UNCHANGED <<mainVars, env, sinkVars, disk, buffer, opens, last, loc,
                   cls_instance, cls_initialized, constructed>>

GetNext ==
    \E t \in Threads :
        \/ GiCall(t)
        \/ GiTest(t)
        \/ GiConstruct(t)
        \/ GiAssign(t)
        \/ GiSetInitialized(t)
        \/ GiReturn(t)

GetSpec == ClassInit /\ [][GetNext]_vars

(***************************************************************************)
(* plot_expert_hist.py: json.loads, JSON values back to Python values.  A  *)
(* JSON number with a fraction becomes the float it denotes, here again an *)
(* integer count of 1e-8.  The sink writes two shapes of object; each is   *)
(* parsed key by key.                                                      *)
(***************************************************************************)
LoadsOptInt(x) == IF x.j = "null" THEN NoneVal ELSE Some(x.v)
LoadsIntList(xs) == [i \in 1..Len(xs.v) |-> xs.v[i].v]
LoadsFloatList(xs) == [i \in 1..Len(xs.v) |-> xs.v[i].micro * 100]

JsonLoads(line) ==
    IF line.type.v = "meta"
    THEN [type |-> line.type.v,
          model_id |-> line.model_id.v,
          vllm_version |-> line.vllm_version.v,
          torch_version |-> line.torch_version.v,
          device |-> line.device.v,
          seed |-> LoadsOptInt(line.seed),
          layers_logged |-> LoadsIntList(line.layers_logged),
          top_k |-> line.top_k.v,
          num_experts |-> line.num_experts.v]
    ELSE [type |-> line.type.v,
          req_id |-> line.req_id.v,
          token_idx |-> line.token_idx.v,
          layer |-> line.layer.v,
          topk_ids |-> LoadsIntList(line.topk_ids),
          topk_weights |-> LoadsFloatList(line.topk_weights)]

(***************************************************************************)
(* read_moe_log                                                            *)
(***************************************************************************)
(* Mutant: routes.insert(0, record) in place of routes.append(record).     *)
ReadStepPrepends(acc, record) ==
    IF record.type = "meta"
    THEN [acc EXCEPT !.meta = record]
    ELSE IF record.type = "route"
         THEN [acc EXCEPT !.routes = <<record>> \o @]
         ELSE acc

(* Lines 19-23: one line of the file.                                      *)
ReadStep(acc, record) ==
    IF record.type = "meta"
    THEN [acc EXCEPT !.meta = record]
    ELSE IF record.type = "route"
         THEN [acc EXCEPT !.routes = Append(@, record)]
         ELSE acc

RECURSIVE ReadLines(_, _, _)
ReadLines(acc, lines, i) ==
    IF i > Len(lines)
    THEN acc
    ELSE ReadLines(ReadStep(acc, JsonLoads(lines[i])), lines, i + 1)

(* The pair (meta, routes) of line 25.                                     *)
ReadMoeLog(lines) == ReadLines([meta |-> NoneVal, routes |-> <<>>], lines, 1)

(***************************************************************************)
(* analyze_expert_usage.  A numpy array is a sequence: the entry of expert *)
(* e is at position e + 1.                                                 *)
(***************************************************************************)
(* Lines 30-32: all_expert_ids after extend() over routes[i..].            *)
RECURSIVE AllExpertIds(_, _)
AllExpertIds(routes, i) ==
    IF i > Len(routes)
    THEN <<>>
    ELSE routes[i].topk_ids \o AllExpertIds(routes, i + 1)

(* Line 35: Counter(all_expert_ids).get(e, 0), counted from position i on. *)
RECURSIVE CounterGet(_, _, _)
CounterGet(ids, e, i) ==
    IF i > Len(ids)
    THEN 0
    ELSE (IF ids[i] = e THEN 1 ELSE 0) + CounterGet(ids, e, i + 1)

(* max(all_expert_ids), for a list that is not empty.                      *)
RECURSIVE MaxOf(_, _)
MaxOf(ids, i) ==
    IF i = Len(ids)
    THEN ids[i]
    ELSE LET m == MaxOf(ids, i + 1)
         IN  IF ids[i] > m THEN ids[i] ELSE m

(* Mutant: the + 1 of line 38 is missing.                                  *)
NumExpertsOffByOne(ids) == IF ids # <<>> THEN MaxOf(ids, 1) ELSE 0

(* Line 38.                                                                *)
NumExpertsOf(ids) == IF ids # <<>> THEN MaxOf(ids, 1) + 1 ELSE 0

(* Lines 30-41: the array expert_usage.                                    *)
AnalyzeExpertUsage(routes) ==
    LET all_expert_ids == AllExpertIds(routes, 1)
        num_experts == NumExpertsOf(all_expert_ids)
    IN  [i \in 1..num_experts |-> CounterGet(all_expert_ids, i - 1, 1)]

(***************************************************************************)
(* calculate_metrics                                                       *)
(***************************************************************************)
RECURSIVE SumOf(_, _)
SumOf(xs, i) == IF i > Len(xs) THEN 0 ELSE xs[i] + SumOf(xs, i + 1)

(* np.argsort(expert_usage): the positions in ascending order of count.    *)
(* The default kind is quicksort, which is not stable: how equal counts    *)
(* are ordered is up to the numpy build, so every ascending order is a     *)
(* possible result.  An order lists positions, from 1.                     *)
ArgsortOutcomes(expert_usage) ==
    {order \in Permutations(1..Len(expert_usage)) :
        \A i, j \in 1..Len(expert_usage) :
            i < j => expert_usage[order[i]] <= expert_usage[order[j]]}

(* Mutant: [-2:] in place of [-3:].                                        *)
LastTwo(order) ==
    SubSeq(order, IF Len(order) > 2 THEN Len(order) - 1 ELSE 1, Len(order))

(* order[-3:]                                                              *)
LastThree(order) ==
    SubSeq(order, IF Len(order) > 3 THEN Len(order) - 2 ELSE 1, Len(order))

(* Mutant: the [::-1] is missing.                                          *)
NotReversed(xs) == xs

(* xs[::-1]                                                                *)
Reversed(xs) == [i \in 1..Len(xs) |-> xs[Len(xs) + 1 - i]]

(* Lines 55-59: (int(idx), int(expert_usage[idx]), float(prob_dist[idx])); *)
(* the probability is kept as the fraction count / total_selections.       *)
TopThreeExperts(expert_usage, order, total_selections) ==
    LET top_3_indices == Reversed(LastThree(order))
    IN  [k \in 1..Len(top_3_indices) |->
            [idx |-> top_3_indices[k] - 1,
             count |-> expert_usage[top_3_indices[k]],
             prob |-> [num |-> expert_usage[top_3_indices[k]],
                       den |-> total_selections]]]

(* Lines 63-71.  The entropies are real numbers; they are kept as what     *)
(* they are compared with: "zero", "one" (the entropy of the uniform       *)
(* distribution over all experts, up to rounding) or "between".            *)
Support(expert_usage) == {i \in 1..Len(expert_usage) : expert_usage[i] > 0}

ShannonEntropy(expert_usage) ==
    IF Cardinality(Support(expert_usage)) = 1 THEN "zero" ELSE "positive"

MaxEntropy(expert_usage) == IF Len(expert_usage) = 1 THEN "zero" ELSE "positive"

NormalizedEntropy(expert_usage) ==
    IF MaxEntropy(expert_usage) = "zero"
    THEN "zero"
    ELSE IF ShannonEntropy(expert_usage) = "zero"
         THEN "zero"
         ELSE IF \A i, j \in 1..Len(expert_usage) : expert_usage[i] = expert_usage[j]
              THEN "one"
              ELSE "between"

(* The dict metrics; {} is the dict without keys of line 50.               *)
EmptyDict == [empty |-> TRUE]

CalculateMetrics(expert_usage, order) ==
    LET total_selections == SumOf(expert_usage, 1)
    IN  IF total_selections = 0
        THEN EmptyDict
        ELSE [empty |-> FALSE,
              top_3_experts |-> TopThreeExperts(expert_usage, order, total_selections),
              shannon_entropy_bits |-> ShannonEntropy(expert_usage),
              max_entropy_bits |-> MaxEntropy(expert_usage),
              normalized_entropy |-> NormalizedEntropy(expert_usage),
              total_selections |-> total_selections,
              num_experts |-> Len(expert_usage)]

(***************************************************************************)
(* AnalysisSpec: main() runs on a trace file, in a process of its own (no  *)
(* sink lives there).  The file holds an optional meta line and up to      *)
(* MaxRoutes route lines whose id lists are empty or pairs of ids up to    *)
(* MaxExpertId.                                                            *)
(***************************************************************************)
TraceIdLists ==
    {<<>>} \cup {<<a, b>> : a \in 0..MaxExpertId, b \in 0..MaxExpertId}

TraceRoute(ids, row) ==
    [type |-> JStr("route"),
     req_id |-> JStr("r0"),
     token_idx |-> JInt(row - 1),
     layer |-> JInt(0),
     topk_ids |-> DumpsIntList(ids),
     topk_weights |-> DumpsFloatList([j \in 1..Len(ids) |-> 500000])]

TraceMeta ==
    [type |-> JStr("meta"),
     model_id |-> JStr(ModelId.v),
     vllm_version |-> JStr(VersionOf("vllm")),
     torch_version |-> JStr(VersionOf("torch")),
     device |-> JStr("cuda"),
     seed |-> JNull,
     layers_logged |-> DumpsIntList(<<0>>),
     top_k |-> JInt(BatchK),
     num_experts |-> JInt(MaxExpertId + 1)]

(* The file with n route lines of the id lists idss, after the meta line   *)
(* if there is one.                                                        *)
TraceFile(with_meta, n, idss) ==
    (IF with_meta THEN <<TraceMeta>> ELSE <<>>)
    \o [row \in 1..n |-> TraceRoute(idss[row], row)]

AnalysisInit ==
    /\ env = [VLLM_LOG_MOE |-> Unset, writable |-> TRUE]
    /\ cls_instance = NoneVal
    /\ cls_initialized = FALSE
    /\ constructed = 0
    /\ frame = [t \in Threads |-> IdleFrame]
    /\ enabled = FALSE
    /\ log_file = NoneVal
    /\ file_handle = HandleNone
    /\ logged_layer = 0
    /\ request_counter = 0
    /\ opens = 0
    /\ \E with_meta \in BOOLEAN, n \in 0..MaxRoutes :
          \E idss \in [1..n -> TraceIdLists] :
              disk = TraceFile(with_meta, n, idss)
    /\ buffer = <<>>
    /\ last = Returned("none", "ok", NoExc)
    /\ pc = [t \in Threads |-> "idle"]
    /\ loc = [t \in Threads |-> IdleLoc]
    /\ MainIdle

notMainVars == <<env, sinkVars, disk, buffer, opens, last, pc, loc, classVars>>

(* Line 151: meta, routes = read_moe_log("moe_routes.jsonl").               *)
MainRead ==
    /\ main_pc = "start"
    /\ LET r == ReadMoeLog(disk)
       IN  /\ main_meta' = r.meta
           /\ main_routes' = r.routes
    /\ main_pc' = "check_routes"
    /\ UNCHANGED <<notMainVars, main_usage, main_metrics, main_exc>>

(* Lines 153-155: if not routes: print the error and return.               *)
MainCheckRoutes ==
    /\ main_pc = "check_routes"
    /\ main_pc' = IF main_routes = <<>> THEN "returned" ELSE "print_meta"
    /\ UNCHANGED <<notMainVars, main_meta, main_routes, main_usage,
                   main_metrics, main_exc>>

(* Lines 157-160: meta.get(...); None has no attribute get.                *)
MainPrintMeta ==
    /\ main_pc = "print_meta"
    /\ IF main_meta = NoneVal
       THEN /\ main_pc' = "raised"
            /\ main_exc' = "AttributeError"
       ELSE /\ main_pc' = "analyze"
            /\ UNCHANGED main_exc
    /\ UNCHANGED <<notMainVars, main_meta, main_routes, main_usage, main_metrics>>

(* Line 163: expert_usage, expert_counts = analyze_expert_usage(routes).   *)
MainAnalyze ==
    /\ main_pc = "analyze"
    /\ main_usage' = AnalyzeExpertUsage(main_routes)
    /\ main_pc' = "calculate"
    /\ UNCHANGED <<notMainVars, main_meta, main_routes, main_metrics, main_exc>>

(* Line 164: metrics, prob_dist = calculate_metrics(expert_usage).         *)
MainCalculate ==
    /\ main_pc = "calculate"
    /\ \E order \in ArgsortOutcomes(main_usage) :
          main_metrics' = CalculateMetrics(main_usage, order)
    /\ main_pc' = "report"
    /\ UNCHANGED <<notMainVars, main_meta, main_routes, main_usage, main_exc>>

(* Lines 166-202: the report reads metrics['total_selections'] and the     *)
(* other keys; a dict without them raises KeyError at line 169.            *)
MainReport ==
    /\ main_pc = "report"
    /\ IF main_metrics.empty
       THEN /\ main_pc' = "raised"
            /\ main_exc' = "KeyError"
       ELSE /\ main_pc' = "done"
            /\ UNCHANGED main_exc
    /\ UNCHANGED <<notMainVars, main_meta, main_routes, main_usage, main_metrics>>

AnalysisNext ==
    \/ MainRead
    \/ MainCheckRoutes
    \/ MainPrintMeta
    \/ MainAnalyze
    \/ MainCalculate
    \/ MainReport

AnalysisSpec == AnalysisInit /\ [][AnalysisNext]_vars

(***************************************************************************)
(* The trace as a reader of the file sees it once everything is flushed.   *)
(***************************************************************************)
stream == disk \o buffer

IsMeta(line) == line.type = JStr("meta")
IsRoute(line) == line.type = JStr("route")

CaptureOps == {"write_meta_header", "log_routing"}

(***************************************************************************)
(* C1. write_meta_header and log_routing always return normally: an error  *)
(* raised while they run is caught and logged, never passed to the caller. *)
(***************************************************************************)
C1_NoExceptionReachesCaller ==
    last.op \in CaptureOps => last.result \in {"noop", "ok", "caught"}

(* log_routing met an IndexError after it had written part of the batch.   *)
C1_Witness ==
    /\ last.op = "log_routing"
    /\ last.result = "caught"
    /\ last.exc = "IndexError"
    /\ buffer # <<>>

(***************************************************************************)
(* C2. With VLLM_LOG_MOE unset or empty the sink is disabled and stays so: *)
(* whatever is called, no file is opened, nothing is written, no call      *)
(* raises.                                                                 *)
(***************************************************************************)
NoOutputTarget == env.VLLM_LOG_MOE \in {Unset, ""}

C2_DisabledStaysDisabled ==
    NoOutputTarget =>
        /\ ~enabled
        /\ file_handle = HandleNone
        /\ opens = 0
        /\ disk = <<>>
        /\ buffer = <<>>
        /\ last.op # "__init__" => last.result = "noop"

(* A batch for layer 0 with a caller's id reached the unconfigured sink.   *)
C2_Witness ==
    /\ NoOutputTarget
    /\ env.writable
    /\ last.op = "log_routing"
    /\ last.layer_idx = 0
    /\ ~last.req_id.none

(***************************************************************************)
(* C3. A log_routing call for another layer than the logged one leaves the *)
(* stream as it was, and every route record in the stream carries the      *)
(* logged layer.                                                           *)
(***************************************************************************)
AllRoutesAtLoggedLayer ==
    \A i \in 1..Len(stream) :
        IsRoute(stream[i]) => stream[i].layer = JInt(logged_layer)

C3_LayerFilter ==
    /\ []AllRoutesAtLoggedLayer
    /\ [][(last'.op = "log_routing" /\ last'.layer_idx # logged_layer)
             => (disk' = disk /\ buffer' = buffer)]_vars

(* An enabled sink that holds a route record has just filtered a call.     *)
C3_Witness ==
    /\ enabled
    /\ last.op = "log_routing"
    /\ last.layer_idx # logged_layer
    /\ \E i \in 1..Len(stream) : IsRoute(stream[i])

(***************************************************************************)
(* C5. As claimed: in every stream the sink can produce, the meta record   *)
(* is the first line and the only meta record.                             *)
(***************************************************************************)
MetaFirstAndOnce(s) ==
    /\ s # <<>>
    /\ \A i \in 1..Len(s) : IsMeta(s[i]) <=> i = 1

C5_MetaFirstInEveryStream == stream # <<>> => MetaFirstAndOnce(stream)

(***************************************************************************)
(* C5, amended.  The sink places no header by itself: a write_meta_header  *)
(* call that succeeds on a still empty stream leaves the meta record as    *)
(* the first and only line, and every log_routing call made on a stream    *)
(* that starts with its one meta record leaves it starting with that one   *)
(* meta record.                                                            *)
(***************************************************************************)
C5_MetaFirstWhenWrittenFirst ==
    [][/\ (last'.op = "write_meta_header" /\ last'.result = "ok" /\ stream = <<>>)
            => (Len(stream') = 1 /\ MetaFirstAndOnce(stream'))
       /\ (last'.op = "log_routing" /\ MetaFirstAndOnce(stream))
            => (MetaFirstAndOnce(stream') /\ stream'[1] = stream[1])]_vars

(* A header, then a route record after it.                                 *)
C5_Witness ==
    /\ last.op = "log_routing"
    /\ last.result = "ok"
    /\ Len(stream) >= 2
    /\ MetaFirstAndOnce(stream)
    /\ IsRoute(stream[Len(stream)])

(***************************************************************************)
(* C6. A log_routing call that the enabled sink accepts at the logged      *)
(* layer and that returns without a caught error appends, for a batch of n *)
(* rows, exactly n route records in row order: the i-th (from 0) has       *)
(* token_idx i, row i's expert ids in their order and row i's weights in   *)
(* their order (rounded to 6 decimals), and all carry one req_id, the      *)
(* caller's or else "r" followed by the counter's value before the call.   *)
(***************************************************************************)
ExpectedReqId(req_id, counter_before) ==
    IF req_id.none THEN "r" \o ToString(counter_before) ELSE req_id.v

ExpectedRecords(b, layer_idx, req_id, counter_before) ==
    [i \in 1..Len(b.topk_ids.rows) |->
        [type |-> JStr("route"),
         req_id |-> JStr(ExpectedReqId(req_id, counter_before)),
         token_idx |-> JInt(i - 1),
         layer |-> JInt(layer_idx),
         topk_ids |-> JArr([j \in 1..Len(b.topk_ids.rows[i]) |->
                              JInt(b.topk_ids.rows[i][j])]),
         topk_weights |-> JArr([j \in 1..Len(b.topk_weights.rows[i]) |->
                                  JFloat(Round6(b.topk_weights.rows[i][j]))])]]

C7_Cardinality ==
    \A i \in 1..Len(stream) :
        IsRoute(stream[i]) =>
            /\ Len(stream[i].topk_ids.v) = Len(stream[i].topk_weights.v)
            /\ \A h \in 1..Len(stream) :
                  IsMeta(stream[h]) =>
                      Len(stream[i].topk_ids.v) = stream[h].top_k.v

(***************************************************************************)
(* C8. As claimed: the counter starts at 0, goes up by one at every        *)
(* log_routing call without a request id, and is left alone by every other *)
(* call.                                                                   *)
(***************************************************************************)
C8_CounterCountsEveryUnattributedCall ==
    /\ [](last.op = "__init__" => request_counter = 0)
    /\ [][IF last'.op = "log_routing" /\ last'.req_id.none
          THEN request_counter' = request_counter + 1
          ELSE request_counter' = request_counter]_vars

(***************************************************************************)
(* C8, amended.  The counter starts at 0 and goes up by exactly one at     *)
(* every log_routing call without a request id that the enabled sink       *)
(* accepts at the logged layer and whose two arguments convert to lists    *)
(* (whether or not the writes that follow succeed); every other call       *)
(* leaves it alone, so it never goes down.                                 *)
(***************************************************************************)
C8_CounterCountsAcceptedUnattributedCalls ==
    /\ [](last.op = "__init__" => request_counter = 0)
    /\ [][IF /\ last'.op = "log_routing"
             /\ last'.req_id.none
             /\ enabled /\ file_handle # HandleNone
             /\ last'.layer_idx = logged_layer
             /\ last'.exc # "AttributeError"
          THEN request_counter' = request_counter + 1
          ELSE request_counter' = request_counter]_vars

(* Two ids were minted, and then a batch came with the caller's own id.    *)
C8_Witness ==
    /\ request_counter >= 2
    /\ last.op = "log_routing"
    /\ last.result = "ok"
    /\ ~last.req_id.none
    /\ stream # <<>>

(***************************************************************************)
(* C9. close drops the handle and disables the sink, whether or not the    *)
(* file's close() raised; on a sink without a handle (closed, or never     *)
(* opened) every call, close included, is a no-op that changes no field    *)
(* and no byte of the file and raises nothing.                             *)
(***************************************************************************)
C9_CloseDisablesForGood ==
    [][/\ last'.op = "close"
            => (file_handle' = HandleNone /\ ~enabled' /\ last'.result # "raised")
       /\ file_handle = HandleNone
            => /\ file_handle' = HandleNone
               /\ ~enabled'
               /\ request_counter' = request_counter
               /\ disk' = disk
               /\ buffer' = buffer
               /\ last'.result = "noop"]_vars

(* A sink that had written was closed, then called at the logged layer.    *)
C9_Witness ==
    /\ opens = 1
    /\ file_handle = HandleNone
    /\ disk # <<>>
    /\ last.op = "log_routing"
    /\ last.layer_idx = logged_layer
    /\ last.result = "noop"

(***************************************************************************)
(* C10. As claimed, and only for calls during which the file object did    *)
(* not fail: when write_meta_header or log_routing has returned on an      *)
(* enabled sink, no line is left in the write buffer.                      *)
(***************************************************************************)
C10_FlushedOnReturn ==
    (last.op \in CaptureOps /\ enabled /\ last.exc # "OSError")
        => buffer = <<>>

(***************************************************************************)
(* C4. As claimed: when log_routing calls run concurrently, the records of *)
(* one batch are contiguous in the stream.  Batches are told apart by      *)
(* their req_id: between two records of one req_id lies no record of       *)
(* another.                                                                *)
(***************************************************************************)
C4_BatchesContiguous ==
    \A i, k \in 1..Len(stream) :
        (i < k /\ stream[i].req_id = stream[k].req_id)
            => \A j \in i..k : stream[j].req_id = stream[i].req_id

(***************************************************************************)
(* C11. As claimed: however the get_instance calls of the threads          *)
(* interleave, at most one MoELogger is constructed, the output file is    *)
(* opened (and truncated) at most once, and all callers that have returned *)
(* hold the same object.                                                   *)
(***************************************************************************)
C11_SingleInitialization ==
    /\ constructed <= 1
    /\ opens <= 1
    /\ \A t, u \in Threads :
          (pc[t] = "done" /\ pc[u] = "done") => frame[t].ret = frame[u].ret

(***************************************************************************)
(* C12. As claimed: a configuration error met by __init__, an invalid      *)
(* VLLM_LOG_MOE_LAYER or a path that open() refuses, leaves the sink       *)
(* disabled, and __init__ does not raise.                                  *)
(***************************************************************************)
UnopenablePath == ~NoOutputTarget /\ ~env.writable

InvalidLayer(layer_env) ==
    ~NoOutputTarget /\ layer_env # Unset /\ ~IsIntLiteral(layer_env)

C12_ConfigErrorDisables ==
    last.op = "__init__" =>
        /\ last.result # "raised"
        /\ (UnopenablePath \/ InvalidLayer(last.layer_env)) => ~enabled

(***************************************************************************)
(* C12, amended.  __init__ never raises.  A path that open() refuses       *)
(* leaves the sink disabled for good: no handle, no file, and every        *)
(* capture call a no-op.  An invalid VLLM_LOG_MOE_LAYER does not disable   *)
(* the sink: with the file open it stays enabled and logs layer 0.         *)
(***************************************************************************)
C12_ConfigErrorDegrades ==
    /\ last.op = "__init__" => last.result \in {"ok", "caught"}
    /\ UnopenablePath =>
          /\ ~enabled
          /\ file_handle = HandleNone
          /\ opens = 0
          /\ disk = <<>> /\ buffer = <<>>
          /\ last.op = "__init__" => (last.result = "caught" /\ last.exc = "OSError")
          /\ last.op \in CaptureOps => last.result = "noop"
    /\ (last.op = "__init__" /\ InvalidLayer(last.layer_env) /\ env.writable) =>
          /\ enabled
          /\ file_handle = HandleOpen
          /\ logged_layer = 0

(* The path could not be opened, and a batch for layer 0 was then offered. *)
C12_Witness ==
    /\ UnopenablePath
    /\ last.op = "log_routing"
    /\ last.layer_idx = 0
    /\ last.result = "noop"

(***************************************************************************)
(* C13. Round trip.  What read_moe_log returns for the file follows what   *)
(* was written, call by call.  A write_meta_header call that succeeds on   *)
(* an empty file leaves a file that parses to the header's fields and no   *)
(* route.  A log_routing call that succeeds, nothing of an earlier call    *)
(* pending, leaves a file that parses to the same meta record as before    *)
(* and to the routes as before followed by the batch's records, one per    *)
(* row, in row order, each equal to the record that was serialized.        *)
(***************************************************************************)
ExpectedMeta(h) ==
    [type |-> "meta",
     model_id |-> h.model_id.v,
     vllm_version |-> VersionOf("vllm"),
     torch_version |-> VersionOf("torch"),
     device |-> "cuda",
     seed |-> h.seed,
     layers_logged |-> <<logged_layer>>,
     top_k |-> h.top_k,
     num_experts |-> NumExperts]

ExpectedRoutes(b, layer_idx, req_id, counter_before) ==
    [i \in 1..Len(b.topk_ids.rows) |->
        [type |-> "route",
         req_id |-> ExpectedReqId(req_id, counter_before),
         token_idx |-> i - 1,
         layer |-> layer_idx,
         topk_ids |-> b.topk_ids.rows[i],
         topk_weights |-> [j \in 1..Len(b.topk_weights.rows[i]) |->
                             Round6(b.topk_weights.rows[i][j]) * 100]]]

C13_RoundTrip ==
    [][/\ (last'.op = "write_meta_header" /\ last'.result = "ok" /\ stream = <<>>)
            => \A h \in HeaderArgs :
                  WriteMetaHeader(h.model_id, h.top_k, NumExperts, "cuda",
                                  h.seed, "ok")
                  => ReadMoeLog(disk') = [meta |-> ExpectedMeta(h), routes |-> <<>>]
       /\ (last'.op = "log_routing" /\ last'.result = "ok" /\ buffer = <<>>)
            => \A b \in BatchArgs :
                  LogRouting(last'.layer_idx, b.topk_ids, b.topk_weights,
                             last'.req_id, b.io)
                  => /\ ReadMoeLog(disk').meta = ReadMoeLog(disk).meta
                     /\ ReadMoeLog(disk').routes =
                            ReadMoeLog(disk).routes
                            \o ExpectedRoutes(b, last'.layer_idx, last'.req_id,
                                              request_counter)]_vars

(* A header with a seed and one unattributed row after it are on the disk  *)
(* and parse to a meta record with that seed and to one route of "r0".     *)
C13_Witness ==
    /\ buffer = <<>>
    /\ Len(disk) = 2
    /\ MetaFirstAndOnce(disk)
    /\ LET r == ReadMoeLog(disk)
       IN  /\ r.meta # NoneVal
           /\ r.meta.seed = Some(1234)
           /\ r.meta.top_k = BatchK
           /\ Len(r.routes) = 1
           /\ r.routes[1].req_id = "r0"
           /\ r.routes[1].token_idx = 0
           /\ Len(r.routes[1].topk_weights) = BatchK

(***************************************************************************)
(* C14. As claimed: once read_moe_log has run on a file without a meta     *)
(* line, the analysis has failed with MissingHeader; it holds no result    *)
(* for such a file.                                                        *)
(***************************************************************************)
NoMetaLine(lines) == \A i \in 1..Len(lines) : ~IsMeta(lines[i])

C14_MissingHeaderFails ==
    (main_pc # "start" /\ NoMetaLine(disk)) => main_exc = "MissingHeader"

(***************************************************************************)
(* C15. As claimed: when main() has ended on a trace without any expert    *)
(* selection (no route line, or route lines with empty id lists), it has   *)
(* raised nothing and its metrics hold total_selections = 0 and a          *)
(* normalized entropy of 0.                                                *)
(***************************************************************************)
MainEnded == main_pc \in {"returned", "raised", "done"}

C15_ZeroDataGuard ==
    (MainEnded /\ AllExpertIds(main_routes, 1) = <<>>) =>
        /\ main_exc = NoExc
        /\ ~main_metrics.empty
        /\ main_metrics.total_selections = 0
        /\ main_metrics.normalized_entropy = "zero"

(***************************************************************************)
(* C16. The histogram that analyze_expert_usage builds from the routes     *)
(* has length max(observed id) + 1, or 0 when no id is observed; its entry *)
(* for expert e is the number of places in the routes' topk_ids lists that *)
(* hold e; its sum is the number of all those places.                      *)
(***************************************************************************)
IdPlaces(routes) ==
    UNION {{<<r, j>> : j \in 1..Len(routes[r].topk_ids)} : r \in 1..Len(routes)}

ObservedIds(routes) == {routes[p[1]].topk_ids[p[2]] : p \in IdPlaces(routes)}

HistogramOf(routes, usage) ==
    /\ Len(usage) =
          IF ObservedIds(routes) = {}
          THEN 0
          ELSE (CHOOSE m \in ObservedIds(routes) :
                    \A e \in ObservedIds(routes) : e <= m) + 1
    /\ \A i \in 1..Len(usage) :
          usage[i] = Cardinality({p \in IdPlaces(routes) :
                                     routes[p[1]].topk_ids[p[2]] = i - 1})
    /\ SumOf(usage, 1) = Cardinality(IdPlaces(routes))

Analyzed == main_pc \in {"calculate", "report", "done"} \/ main_exc = "KeyError"

C16_HistogramCorrect == Analyzed => HistogramOf(main_routes, main_usage)

(* Two routes, [3, 3] and [0, 3]: experts 1 and 2 are unobserved.          *)
C16_Witness ==
    /\ main_pc = "calculate"
    /\ Len(main_routes) = 2
    /\ main_routes[1].topk_ids = <<3, 3>>
    /\ main_usage = <<1, 0, 0, 3>>

(***************************************************************************)
(* C17. As claimed: the top-3 list is the first three experts in the order *)
(* count descending, lower id first among equal counts.                    *)
(***************************************************************************)
Computed == main_pc \in {"report", "done"} /\ ~main_metrics.empty

RankedBefore(usage, a, b) ==
    usage[a] > usage[b] \/ (usage[a] = usage[b] /\ a < b)

TopThreeLowerIdFirst(usage) ==
    [k \in 1..(IF Len(usage) > 3 THEN 3 ELSE Len(usage)) |->
        (CHOOSE a \in 1..Len(usage) :
            Cardinality({b \in 1..Len(usage) : RankedBefore(usage, b, a)}) = k - 1)
        - 1]

C17_TiesLowerIdFirst ==
    Computed =>
        [k \in 1..Len(main_metrics.top_3_experts) |->
            main_metrics.top_3_experts[k].idx] = TopThreeLowerIdFirst(main_usage)

(***************************************************************************)
(* C17, amended.  The top-3 list is ordered by count descending and holds  *)
(* the three largest counts: it names min(3, number of experts) different  *)
(* experts, each with its own count, no count in the list is smaller than  *)
(* a later one or than the count of an expert left out.  Which of several  *)
(* experts of equal count comes first is not fixed.                        *)
(***************************************************************************)
C17_TopThreeByCount ==
    Computed =>
        LET top == main_metrics.top_3_experts
            listed == {top[k].idx : k \in 1..Len(top)}
        IN  /\ Len(top) = IF Len(main_usage) > 3 THEN 3 ELSE Len(main_usage)
            /\ Cardinality(listed) = Len(top)
            /\ \A k \in 1..Len(top) :
                  /\ top[k].idx \in 0..(Len(main_usage) - 1)
                  /\ top[k].count = main_usage[top[k].idx + 1]
                  /\ \A j \in 1..Len(top) : j < k => top[j].count >= top[k].count
                  /\ \A e \in 0..(Len(main_usage) - 1) :
                        e \notin listed => top[k].count >= main_usage[e + 1]

(* Four experts, and of two listed experts of equal count the one with the *)
(* higher id comes first.                                                  *)
C17_Witness ==
    /\ Computed
    /\ Len(main_usage) = 4
    /\ \E j, k \in 1..Len(main_metrics.top_3_experts) :
          /\ j < k
          /\ main_metrics.top_3_experts[j].count = main_metrics.top_3_experts[k].count
          /\ main_metrics.top_3_experts[j].idx > main_metrics.top_3_experts[k].idx

(***************************************************************************)
(* C18. As claimed: among the route records of one req_id the first has    *)
(* token_idx 0 and the token_idx values strictly increase along the        *)
(* stream, so that no (req_id, token_idx, layer) occurs twice.             *)
(***************************************************************************)
C18_TokenPositionsMonotonic ==
    \A k \in 1..Len(stream) :
        IsRoute(stream[k]) =>
            /\ (\A i \in 1..(k - 1) :
                    IsRoute(stream[i]) => stream[i].req_id # stream[k].req_id)
                  => stream[k].token_idx = JInt(0)
            /\ \A i \in 1..(k - 1) :
                  (IsRoute(stream[i]) /\ stream[i].req_id = stream[k].req_id)
                      => stream[i].token_idx.v < stream[k].token_idx.v

(***************************************************************************)
(* C19. As claimed: with three or more experts in the histogram, every     *)
(* expert in the top-3 list has a count above 0, and the list has as many  *)
(* entries as experts have a count above 0, up to three.                   *)
(***************************************************************************)
C19_NoZeroCountListed ==
    (Computed /\ Len(main_usage) >= 3) =>
        /\ \A k \in 1..Len(main_metrics.top_3_experts) :
              main_metrics.top_3_experts[k].count > 0
        /\ Len(main_metrics.top_3_experts) =
              IF Cardinality(Support(main_usage)) > 3
              THEN 3 ELSE Cardinality(Support(main_usage))

(***************************************************************************)
(* C19, amended.  The top-3 list is never shortened: it has min(3, number  *)
(* of experts) entries, whatever their counts.  It holds an expert of      *)
(* count 0 exactly when fewer experts than it has entries have a count     *)
(* above 0, which happens with three or more experts too.                  *)
(***************************************************************************)
C19_ZeroCountListedWhenFewUsed ==
    Computed =>
        LET top == main_metrics.top_3_experts
        IN  /\ Len(top) = IF Len(main_usage) > 3 THEN 3 ELSE Len(main_usage)
            /\ (\E k \in 1..Len(top) : top[k].count = 0)
                  <=> Cardinality(Support(main_usage)) < Len(top)

(* Three experts or more, one of count 0 is in the list.                   *)
C19_Witness ==
    /\ Computed
    /\ Len(main_usage) >= 3
    /\ Len(main_metrics.top_3_experts) = 3
    /\ main_metrics.top_3_experts[3].count = 0
    /\ main_metrics.top_3_experts[1].count > 0

(***************************************************************************)
(* C20. As claimed: when log_routing calls without a request id run        *)
(* concurrently, no two of them mint the same id, and when all have        *)
(* returned the counter equals the number of ids minted.                   *)
(***************************************************************************)
HasMinted(t) ==
    /\ pc[t] \in {"incr_load", "incr_store", "loop", "done"}
    /\ ~loc[t].req_id.none
    /\ loc[t].req_id.v \in {MintedId(n) : n \in 0..Cardinality(Threads)}

C20_MintedIdsUnique ==
    /\ \A t, u \in Threads :
          (t # u /\ HasMinted(t) /\ HasMinted(u)) => loc[t].req_id # loc[u].req_id
    /\ (\A t \in Threads : pc[t] \in {"idle", "done"})
          => request_counter = Cardinality({t \in Threads : HasMinted(t)})

====
